---- MODULE Spec2Model ----
(***************************************************************************)
(* Model of xpectate's src/lib.rs: the watch loop (filter, classify,       *)
(* latch, debounce, spawn) over a stream of notify results.                *)
(*                                                                         *)
(* Time is counted in ticks of 100 ms from the instant `watch` reads       *)
(* Instant::now() at line 83.  A path is a sequence of one-character       *)
(* strings; the token "xFF" stands for a byte that is not valid UTF-8 and  *)
(* "uFFFD" for the replacement character U+FFFD.  Option<T> is a sequence   *)
(* of length at most one: <<>> is None and <<x>> is Some(x).               *)
(***************************************************************************)
EXTENDS Integers, Sequences, FiniteSets, TLC

VARIABLES
    extensions,      \* watch argument: Option<Vec<String>>
    command,         \* watch argument: Option<&str>
    has_changes,     \* line 81
    last_call_time,  \* line 83
    clock,           \* the monotonic clock Instant::now() reads
    pc,              \* "recv" (in the for loop), "returned", "panicked"
    rx,              \* the channel: notifications sent and not yet received
    open,            \* TRUE while a sender of the channel is alive
    res,             \* the notification of the last iteration (Option)
    arm,             \* the path the last iteration took through the loop body
    out,             \* the lines the last iteration printed
    fired,           \* TRUE iff the last iteration called call_command
    spawns,          \* the instants (now) of the successful spawns, in order
    running          \* spawned child processes that have not exited yet

vars == <<extensions, command, has_changes, last_call_time, clock, pc, rx,
          open, res, arm, out, fired, spawns, running>>

----------------------------------------------------------------------------
(* Bounds *)

MaxTime == 12
MaxQueue == 2

(* Duration::new(1, 0), in ticks of 100 ms *)
Window == 10

----------------------------------------------------------------------------
(* Option *)

None == <<>>
Some(x) == <<x>>
IsSome(o) == o /= <<>>
Unwrap(o) == o[1]

----------------------------------------------------------------------------
(* Paths and strings *)

Sep == "/"
Dot == "."

\* OsStr::to_string_lossy / Path::display: bytes that are not valid UTF-8
\* are rendered as U+FFFD, everything else is kept.
LossyChar(c) == IF c = "xFF" THEN "uFFFD" ELSE c
to_string_lossy(s) == [i \in 1..Len(s) |-> LossyChar(s[i])]
display(p) == to_string_lossy(p)

\* The index of the last occurrence of c in s, 0 when there is none.
RECURSIVE rfind(_, _)
rfind(s, c) ==
    IF s = <<>> THEN 0
    ELSE IF s[Len(s)] = c THEN Len(s)
    ELSE rfind(SubSeq(s, 1, Len(s) - 1), c)

\* Path::components ignores trailing separators and trailing "." components.
RECURSIVE strip_trailing(_)
strip_trailing(p) ==
    IF Len(p) >= 1 /\ p[Len(p)] = Sep
        THEN strip_trailing(SubSeq(p, 1, Len(p) - 1))
    ELSE IF Len(p) >= 2 /\ p[Len(p)] = Dot /\ p[Len(p) - 1] = Sep
        THEN strip_trailing(SubSeq(p, 1, Len(p) - 2))
    ELSE p

\* Path::file_name: the last component when it is a normal one.
file_name(p) ==
    LET q == strip_trailing(p)
        name == SubSeq(q, rfind(q, Sep) + 1, Len(q))
    IN  IF name = <<>> \/ name = <<Dot>> \/ name = <<Dot, Dot>>
        THEN None ELSE Some(name)

\* Path::extension: the part of the file name after its last dot; None when
\* there is no file name, no dot, or nothing before the last dot.
extension(p) ==
    LET f == file_name(p)
    IN  IF ~IsSome(f) THEN None
        ELSE LET n == Unwrap(f)
                 i == rfind(n, Dot)
             IN  IF i <= 1 THEN None
                 ELSE Some(SubSeq(n, i + 1, Len(n)))

----------------------------------------------------------------------------
(* Notifications: notify::Result<Event> *)

Ok(kind, paths) == [ok |-> TRUE, kind |-> kind, paths |-> paths]
Err(kind, paths) == [ok |-> FALSE, kind |-> kind, paths |-> paths]

\* notify::EventKind and notify::ErrorKind: a tag and, for some tags, a payload.
EventKind(tag, sub) == [tag |-> tag, sub |-> sub]

\* The match without the arm of line 26.
kind_to_string_no_other(kind) ==
    CASE kind.tag = "Access" -> "Access"
      [] kind.tag = "Create" -> "Create"
      [] kind.tag = "Modify" -> "Modify"
      [] kind.tag = "Remove" -> "Remove"
      [] OTHER               -> "Unknown"

\* Lines 21-28: the match on event.kind.
kind_to_string(kind) ==
    CASE kind.tag = "Access" -> "Access"
      [] kind.tag = "Create" -> "Create"
      [] kind.tag = "Modify" -> "Modify"
      [] kind.tag = "Remove" -> "Remove"
      [] kind.tag = "Other"  -> "Other"
      [] OTHER               -> "Unknown"

\* Line 31: event.paths.get(0).map(|p| p.display().to_string())
first_path(event) ==
    IF Len(event.paths) >= 1 THEN Some(display(event.paths[1])) ELSE None

\* Lines 19-34.  None stands for the panic of path.unwrap() at line 33.
event_to_tuple(event) ==
    LET kind == kind_to_string(event.kind)
        path == first_path(event)
    IN  IF IsSome(path) THEN Some(<<kind, Unwrap(path)>>) ELSE None

\* Lines 91-93: the closure of the filter, for one path.
path_matches(p, exts) ==
    LET ext == extension(p)
    IN  IF IsSome(ext) THEN to_string_lossy(Unwrap(ext)) \in exts ELSE FALSE

\* The filter looking at the first path only.
any_path_first_only(paths, exts) ==
    IF paths = <<>> THEN FALSE ELSE path_matches(Head(paths), exts)

\* The filter asking every path to match: all() instead of any().
RECURSIVE any_path_all(_, _)
any_path_all(paths, exts) ==
    IF paths = <<>> THEN TRUE
    ELSE IF ~path_matches(Head(paths), exts) THEN FALSE
    ELSE any_path_all(Tail(paths), exts)

\* Line 90: event.paths.iter().any(..), left to right.
RECURSIVE any_path(_, _)
any_path(paths, exts) ==
    IF paths = <<>> THEN FALSE
    ELSE IF path_matches(Head(paths), exts) THEN TRUE
    ELSE any_path(Tail(paths), exts)

\* Lines 89-99: TRUE iff the iteration goes on to line 101.  A Vec<String>
\* is used only through contains, so the allow-list is modelled as a set.
should_process(event, exts_opt) ==
    IF IsSome(exts_opt) THEN any_path(event.paths, Unwrap(exts_opt)) ELSE TRUE

\* Line 46: str::split_whitespace.
RECURSIVE split_whitespace(_, _)
split_whitespace(s, word) ==
    IF s = <<>> THEN (IF word = <<>> THEN <<>> ELSE <<word>>)
    ELSE IF Head(s) = " "
        THEN (IF word = <<>> THEN <<>> ELSE <<word>>) \o split_whitespace(Tail(s), <<>>)
    ELSE split_whitespace(Tail(s), Append(word, Head(s)))

\* Lines 46-51: the argument vector handed to Command::spawn.
command_argv(arg_str) ==
    <<<<"pwsh">>, <<"-Command">>>> \o split_whitespace(arg_str, <<>>)

\* Line 116: Instant::duration_since saturates at zero.
duration_since(now, earlier) == IF now >= earlier THEN now - earlier ELSE 0

----------------------------------------------------------------------------
(* The lines println! writes *)

\* A line is its fixed text and the values formatted into it, each a string
\* (a sequence of characters or one whole word).
Line(text, args) == [text |-> text, args |-> args]
LineChangeDetected == Line("Change detected!", <<>>)
LineChange(tuple) == Line("Change: ", <<<<tuple[1]>>, tuple[2]>>)
LineError(error) == Line("Error: ", <<<<error.kind.tag>>>>)
LineRunning(cmd) == Line("Running command: ", <<cmd>>)

----------------------------------------------------------------------------
(* Inputs of the loop specification *)

PathCss == <<"/", "w", "/", "a", ".", "c", "s", "s">>
PathJs == <<"/", "w", "/", "a", ".", "j", "s">>

LoopEvents ==
    { Ok(EventKind("Modify", "Any"), <<PathCss>>),
      Ok(EventKind("Create", "Any"), <<PathJs>>),
      Ok(EventKind("Any", "Any"), <<PathJs, PathCss>>),
      Ok(EventKind("Remove", "Any"), <<>>) }

LoopErrors == { Err(EventKind("Generic", "Any"), <<>>) }

LoopNotifications == LoopEvents \cup LoopErrors

LoopExtensions == { None, Some({<<"c", "s", "s">>}) }

LoopCommands == { None, Some(<<"m", "k", " ", "-", "q">>) }

----------------------------------------------------------------------------
(* The state after line 83 *)

\* Line 83: Instant::now() - Duration::new(1, 0).
initial_last_call_time(now) == now - Window

Init ==
    /\ extensions \in LoopExtensions
    /\ command \in LoopCommands
    /\ has_changes = FALSE
    /\ clock = 0
    /\ last_call_time = initial_last_call_time(clock)
    /\ pc = "recv"
    /\ rx = <<>>
    /\ open = TRUE
    /\ res = None
    /\ arm = "none"
    /\ out = <<>>
    /\ fired = FALSE
    /\ spawns = <<>>
    /\ running = 0

----------------------------------------------------------------------------
(* The environment *)

\* The watcher sends a notification into the channel (line 77: tx).
Send ==
    /\ pc = "recv"
    /\ open
    /\ Len(rx) < MaxQueue
    /\ \E n \in LoopNotifications : rx' = Append(rx, n)
    /\ UNCHANGED <<extensions, command, has_changes, last_call_time, clock,
                   pc, open, res, arm, out, fired, spawns, running>>

\* Every sender of the channel is dropped.
Close ==
    /\ pc = "recv"
    /\ open
    /\ open' = FALSE
    /\ UNCHANGED <<extensions, command, has_changes, last_call_time, clock,
                   pc, rx, res, arm, out, fired, spawns, running>>

\* Time passing that also runs a command that is due.
Tick_fires ==
    /\ clock < MaxTime
    /\ clock' = clock + 1
    /\ IF pc = "recv" /\ IsSome(command) /\ has_changes
          /\ clock + 1 - last_call_time >= Window
       THEN /\ spawns' = Append(spawns,
                   [at |-> clock + 1, argv |-> command_argv(Unwrap(command))])
            /\ running' = running + 1
            /\ last_call_time' = clock + 1
       ELSE UNCHANGED <<spawns, running, last_call_time>>
    /\ UNCHANGED <<extensions, command, has_changes, pc, rx, open, res, arm,
                   out, fired>>

\* 100 ms pass.
Tick ==
    /\ clock < MaxTime
    /\ clock' = clock + 1
    /\ UNCHANGED <<extensions, command, has_changes, last_call_time, pc, rx,
                   open, res, arm, out, fired, spawns, running>>

\* A spawned command finishes; its Child handle was dropped at line 118.
ChildExit ==
    /\ running > 0
    /\ running' = running - 1
    /\ UNCHANGED <<extensions, command, has_changes, last_call_time, clock,
                   pc, rx, open, res, arm, out, fired, spawns>>

----------------------------------------------------------------------------
(* The loop body, lines 85-124 *)

\* The firing condition without the comparison of line 116.
should_fire_no_window(cmd, has, now, last) ==
    IsSome(cmd) /\ has

\* The firing condition without the test of line 114.
should_fire_no_latch(cmd, has, now, last) ==
    IsSome(cmd) /\ duration_since(now, last) >= Window

\* Lines 113-116: a command is given, the latch is set and the last call is
\* at least the window ago.
should_fire(cmd, has, now, last) ==
    IsSome(cmd) /\ has /\ duration_since(now, last) >= Window

\* The firing block without the test of line 113.
FireBlock_no_command_check(printed) ==
    IF has_changes' /\ duration_since(clock, last_call_time) >= Window
    THEN /\ fired' = TRUE
         /\ out' = Append(printed,
                LineRunning(IF IsSome(command) THEN Unwrap(command) ELSE <<>>))
         /\ \E spawned \in BOOLEAN :
              IF spawned
              THEN /\ spawns' = Append(spawns,
                          [at |-> clock,
                           argv |-> command_argv(IF IsSome(command)
                                                 THEN Unwrap(command) ELSE <<>>)])
                   /\ running' = running + 1
                   /\ last_call_time' = clock
                   /\ pc' = "recv"
              ELSE /\ pc' = "panicked"
                   /\ UNCHANGED <<spawns, running, last_call_time>>
    ELSE /\ fired' = FALSE
         /\ out' = printed
         /\ UNCHANGED <<spawns, running, last_call_time, pc>>

\* The firing block restarting the window at every event, fired or not.
FireBlock_window_from_event(printed) ==
    IF should_fire(command, has_changes', clock, last_call_time)
    THEN /\ fired' = TRUE
         /\ out' = Append(printed, LineRunning(Unwrap(command)))
         /\ \E spawned \in BOOLEAN :
              IF spawned
              THEN /\ spawns' = Append(spawns,
                          [at |-> clock, argv |-> command_argv(Unwrap(command))])
                   /\ running' = running + 1
                   /\ last_call_time' = clock
                   /\ pc' = "recv"
              ELSE /\ pc' = "panicked"
                   /\ UNCHANGED <<spawns, running, last_call_time>>
    ELSE /\ fired' = FALSE
         /\ out' = printed
         /\ last_call_time' = IF IsSome(command) /\ has_changes'
                              THEN clock ELSE last_call_time
         /\ UNCHANGED <<spawns, running, pc>>

\* The firing block waiting for the child before it goes on.
FireBlock_waits(printed) ==
    IF should_fire(command, has_changes', clock, last_call_time)
    THEN /\ fired' = TRUE
         /\ out' = Append(printed, LineRunning(Unwrap(command)))
         /\ \E spawned \in BOOLEAN :
              IF spawned
              THEN /\ spawns' = Append(spawns,
                          [at |-> clock, argv |-> command_argv(Unwrap(command))])
                   /\ running' = running
                   /\ last_call_time' = clock
                   /\ pc' = "recv"
              ELSE /\ pc' = "panicked"
                   /\ UNCHANGED <<spawns, running, last_call_time>>
    ELSE /\ fired' = FALSE
         /\ out' = printed
         /\ UNCHANGED <<spawns, running, last_call_time, pc>>

\* The firing block going on after a spawn that failed.
FireBlock_ignores_failure(printed) ==
    IF should_fire(command, has_changes', clock, last_call_time)
    THEN /\ fired' = TRUE
         /\ out' = Append(printed, LineRunning(Unwrap(command)))
         /\ \E spawned \in BOOLEAN :
              IF spawned
              THEN /\ spawns' = Append(spawns,
                          [at |-> clock, argv |-> command_argv(Unwrap(command))])
                   /\ running' = running + 1
                   /\ last_call_time' = clock
                   /\ pc' = "recv"
              ELSE /\ pc' = "recv"
                   /\ last_call_time' = clock
                   /\ UNCHANGED <<spawns, running>>
    ELSE /\ fired' = FALSE
         /\ out' = printed
         /\ UNCHANGED <<spawns, running, last_call_time, pc>>

\* Lines 113-123, entered with the lines printed so far.  Command::spawn
\* succeeds or fails as the host decides; unwrap() panics when it failed.
FireBlock(printed) ==
    IF should_fire(command, has_changes', clock, last_call_time)
    THEN /\ fired' = TRUE
         /\ out' = Append(printed, LineRunning(Unwrap(command)))
         /\ \E spawned \in BOOLEAN :
              IF spawned
              THEN /\ spawns' = Append(spawns,
                          [at |-> clock, argv |-> command_argv(Unwrap(command))])
                   /\ running' = running + 1
                   /\ last_call_time' = clock
                   /\ pc' = "recv"
              ELSE /\ pc' = "panicked"
                   /\ UNCHANGED <<spawns, running, last_call_time>>
    ELSE /\ fired' = FALSE
         /\ out' = printed
         /\ UNCHANGED <<spawns, running, last_call_time, pc>>

\* The Err arm ending the iteration, without the code after the match.
RecvErr_no_fire ==
    /\ pc = "recv"
    /\ rx /= <<>>
    /\ ~Head(rx).ok
    /\ rx' = Tail(rx)
    /\ res' = Some(Head(rx))
    /\ arm' = "err"
    /\ out' = <<LineError(Head(rx))>>
    /\ fired' = FALSE
    /\ UNCHANGED <<extensions, command, has_changes, last_call_time, clock,
                   pc, open, spawns, running>>

\* Line 110: the Err arm, then the code after the match.
RecvErr ==
    /\ pc = "recv"
    /\ rx /= <<>>
    /\ ~Head(rx).ok
    /\ rx' = Tail(rx)
    /\ res' = Some(Head(rx))
    /\ arm' = "err"
    /\ has_changes' = has_changes
    /\ FireBlock(<<LineError(Head(rx))>>)
    /\ UNCHANGED <<extensions, command, clock, open>>

\* The filtered event without the continue of line 97: it goes on to the
\* code after the match.
RecvFiltered_no_continue ==
    /\ pc = "recv"
    /\ rx /= <<>>
    /\ Head(rx).ok
    /\ ~should_process(Head(rx), extensions)
    /\ rx' = Tail(rx)
    /\ res' = Some(Head(rx))
    /\ arm' = "filtered"
    /\ has_changes' = has_changes
    /\ FireBlock(<<>>)
    /\ UNCHANGED <<extensions, command, clock, open>>

\* Lines 96-98: the event fails the filter and the iteration ends.
RecvFiltered ==
    /\ pc = "recv"
    /\ rx /= <<>>
    /\ Head(rx).ok
    /\ ~should_process(Head(rx), extensions)
    /\ rx' = Tail(rx)
    /\ res' = Some(Head(rx))
    /\ arm' = "filtered"
    /\ out' = <<>>
    /\ fired' = FALSE
    /\ UNCHANGED <<extensions, command, has_changes, last_call_time, clock,
                   pc, open, spawns, running>>

\* Lines 102 and 33: the event has no path and unwrap() panics.
RecvPanic ==
    /\ pc = "recv"
    /\ rx /= <<>>
    /\ Head(rx).ok
    /\ should_process(Head(rx), extensions)
    /\ ~IsSome(event_to_tuple(Head(rx)))
    /\ rx' = Tail(rx)
    /\ res' = Some(Head(rx))
    /\ arm' = "panic"
    /\ out' = <<>>
    /\ fired' = FALSE
    /\ pc' = "panicked"
    /\ UNCHANGED <<extensions, command, has_changes, last_call_time, clock,
                   open, spawns, running>>

\* The change arm clearing the latch when it fires.
RecvChange_resets_latch ==
    /\ pc = "recv"
    /\ rx /= <<>>
    /\ Head(rx).ok
    /\ should_process(Head(rx), extensions)
    /\ IsSome(event_to_tuple(Head(rx)))
    /\ rx' = Tail(rx)
    /\ res' = Some(Head(rx))
    /\ arm' = "change"
    /\ LET event == Unwrap(event_to_tuple(Head(rx)))
           printed == IF ~has_changes
                      THEN <<LineChangeDetected, LineChange(event)>>
                      ELSE <<>>
       IN  IF should_fire(command, TRUE, clock, last_call_time)
           THEN /\ has_changes' = FALSE
                /\ fired' = TRUE
                /\ out' = Append(printed, LineRunning(Unwrap(command)))
                /\ spawns' = Append(spawns,
                       [at |-> clock, argv |-> command_argv(Unwrap(command))])
                /\ running' = running + 1
                /\ last_call_time' = clock
                /\ pc' = "recv"
           ELSE /\ has_changes' = TRUE
                /\ fired' = FALSE
                /\ out' = printed
                /\ UNCHANGED <<spawns, running, last_call_time, pc>>
    /\ UNCHANGED <<extensions, command, clock, open>>

\* The change arm printing its two lines at every relevant event.
RecvChange_always_logs ==
    /\ pc = "recv"
    /\ rx /= <<>>
    /\ Head(rx).ok
    /\ should_process(Head(rx), extensions)
    /\ IsSome(event_to_tuple(Head(rx)))
    /\ rx' = Tail(rx)
    /\ res' = Some(Head(rx))
    /\ arm' = "change"
    /\ has_changes' = TRUE
    /\ LET event == Unwrap(event_to_tuple(Head(rx)))
       IN  FireBlock(<<LineChangeDetected, LineChange(event)>>)
    /\ UNCHANGED <<extensions, command, clock, open>>

\* Lines 102-108: the event is converted and the latch is set, then the
\* code after the match.
RecvChange ==
    /\ pc = "recv"
    /\ rx /= <<>>
    /\ Head(rx).ok
    /\ should_process(Head(rx), extensions)
    /\ IsSome(event_to_tuple(Head(rx)))
    /\ rx' = Tail(rx)
    /\ res' = Some(Head(rx))
    /\ arm' = "change"
    /\ has_changes' = TRUE
    /\ LET event == Unwrap(event_to_tuple(Head(rx)))
       IN  FireBlock(IF ~has_changes
                     THEN <<LineChangeDetected, LineChange(event)>>
                     ELSE <<>>)
    /\ UNCHANGED <<extensions, command, clock, open>>

\* The loop ending as soon as the channel is empty, closed or not.
Return_when_empty ==
    /\ pc = "recv"
    /\ rx = <<>>
    /\ pc' = "returned"
    /\ UNCHANGED <<extensions, command, has_changes, last_call_time, clock,
                   rx, open, res, arm, out, fired, spawns, running>>

\* Line 125: the channel is empty and closed, the for loop ends.
Return ==
    /\ pc = "recv"
    /\ rx = <<>>
    /\ ~open
    /\ pc' = "returned"
    /\ UNCHANGED <<extensions, command, has_changes, last_call_time, clock,
                   rx, open, res, arm, out, fired, spawns, running>>

Next ==
    \/ Send
    \/ Close
    \/ Tick
    \/ ChildExit
    \/ RecvErr
    \/ RecvFiltered
    \/ RecvPanic
    \/ RecvChange
    \/ Return

Spec == Init /\ [][Next]_vars

\* The thread of watch is scheduled: recv() returns once the channel is
\* disconnected and empty, so the for loop of line 85 ends.
SpecFair == Spec /\ WF_vars(Return)

----------------------------------------------------------------------------
(* One iteration of the loop body on one notification, for the claims about *)
(* the filter and the classifier: the inputs are drawn from larger sets.    *)

MaxPaths == 2

FnPaths ==
    { PathCss,
      PathJs,
      <<"/", "w", "/", "a", ".", "C", "S", "S">>,
      <<"/", "w", "/", ".", "c", "s", "s">>,
      <<"/", "w", ".", "c", "s", "s", "/", "a">>,
      <<"/", "w", "/", "a", ".", "j", "s", ".", "c", "s", "s">>,
      <<"/", "w", "/", "a", ".", "c", "s", "s", "/">>,
      <<"/", "w", "/", "a", ".">>,
      <<"/", "w", "/", "a", ".", "xFF">>,
      <<"/", "w", "/", ".", ".">> }

RECURSIVE SeqsUpTo(_, _)
SeqsUpTo(S, n) ==
    IF n = 0 THEN {<<>>}
    ELSE LET shorter == SeqsUpTo(S, n - 1)
         IN  shorter \cup {Append(q, x) : q \in shorter, x \in S}

FnPathLists == SeqsUpTo(FnPaths, MaxPaths)

FnKinds ==
    {EventKind(tag, "Any") :
        tag \in {"Any", "Access", "Create", "Modify", "Remove", "Other"}}
    \cup {EventKind("Modify", "Data"), EventKind("Access", "Close")}

FnExtensions ==
    { None,
      Some({}),
      Some({<<"c", "s", "s">>}),
      Some({<<"j", "s">>, <<"h", "t", "m", "l">>}),
      Some({<<"C", "S", "S">>}),
      Some({<<".", "c", "s", "s">>}),
      Some({<<>>}),
      Some({<<"uFFFD">>}) }

InitFn ==
    /\ extensions \in FnExtensions
    /\ command \in LoopCommands
    /\ has_changes = FALSE
    /\ clock = 0
    /\ last_call_time = initial_last_call_time(clock)
    /\ pc = "recv"
    /\ \E kind \in FnKinds, paths \in FnPathLists : rx = <<Ok(kind, paths)>>
    /\ open = FALSE
    /\ res = None
    /\ arm = "none"
    /\ out = <<>>
    /\ fired = FALSE
    /\ spawns = <<>>
    /\ running = 0

NextFn ==
    \/ RecvFiltered
    \/ RecvPanic
    \/ RecvChange

SpecFn == InitFn /\ [][NextFn]_vars

----------------------------------------------------------------------------
(* Vocabulary of the properties *)

\* A step in which the loop takes the notification at the head of the channel.
Consumed == pc = "recv" /\ rx /= <<>> /\ rx' = Tail(rx)

\* The allow-list is absent, or some path of the list has an extension whose
\* string form (invalid UTF-8 replaced by U+FFFD) is a member of it.
RelevantLossy(paths, exts_opt) ==
    \/ exts_opt = None
    \/ \E i \in 1..Len(paths) : \E e \in Unwrap(exts_opt) :
          /\ IsSome(extension(paths[i]))
          /\ to_string_lossy(Unwrap(extension(paths[i]))) = e

\* The allow-list is absent, or some path of the list has an extension that
\* is itself a member of it.
RelevantExact(paths, exts_opt) ==
    \/ exts_opt = None
    \/ \E i \in 1..Len(paths) : \E e \in Unwrap(exts_opt) :
          /\ IsSome(extension(paths[i]))
          /\ Unwrap(extension(paths[i])) = e

Printed(lines, text) == \E i \in 1..Len(lines) : lines[i].text = text

Labels == {"Access", "Create", "Modify", "Remove", "Other", "Unknown"}
NamedKinds == {"Access", "Create", "Modify", "Remove", "Other"}

\* The time since the last call, as the claims measure it.
Elapsed == clock - last_call_time

----------------------------------------------------------------------------
(* C1 *)

\* C1: any two successive spawns of the command are at least the 1-second
\* window apart, measured at the instants (now, line 115) of the iterations
\* that spawned them, whatever notifications arrive and whenever.
C1_RateLimit ==
    \A i \in 1..(Len(spawns) - 1) : spawns[i + 1].at - spawns[i].at >= Window

\* Two spawns have happened in the run.
C1_Witness == IsSome(command) /\ Len(spawns) >= 2

----------------------------------------------------------------------------
(* C2 *)

\* C2: with a command configured, every success notification that passes the
\* extension filter calls the command in its iteration if and only if the
\* time since the last call is at least the window.
C2_DebounceDecision ==
    [][ (Consumed /\ Head(rx).ok /\ IsSome(command)
            /\ RelevantLossy(Head(rx).paths, extensions))
        => (fired' <=> Elapsed >= Window) ]_vars

----------------------------------------------------------------------------
(* C3 *)

\* C3: with a command configured, the first success notification that passes
\* the filter (the latch is still unset) calls the command in its own
\* iteration, however soon after the start it arrives.
C3_ImmediateFirstFire ==
    [][ (Consumed /\ Head(rx).ok /\ IsSome(command) /\ ~has_changes
            /\ RelevantLossy(Head(rx).paths, extensions))
        => fired' ]_vars

----------------------------------------------------------------------------
(* C4 *)

\* C4: with an allow-list configured, a success notification none of whose
\* paths has an extension in the list prints nothing, calls nothing, and
\* leaves the latch, last_call_time and the loop as they were.
C4_FilteredInert ==
    [][ (Consumed /\ Head(rx).ok /\ IsSome(extensions)
            /\ ~RelevantLossy(Head(rx).paths, extensions))
        => /\ out' = <<>>
           /\ ~fired'
           /\ spawns' = spawns
           /\ running' = running
           /\ has_changes' = has_changes
           /\ last_call_time' = last_call_time
           /\ pc' = "recv" ]_vars

\* A filtered-out event has been processed with the latch set, a command
\* configured and the window elapsed.
C4_Witness ==
    /\ arm = "filtered"
    /\ res /= None
    /\ rx = <<>>
    /\ has_changes
    /\ IsSome(command)
    /\ Elapsed >= Window
    /\ Len(spawns) = 1

----------------------------------------------------------------------------
(* C5 *)

\* C5: processing an Err notification never calls the command and leaves
\* last_call_time and the latch unchanged, in every state.
C5_ErrKeepsDebounceState ==
    [][ (Consumed /\ ~Head(rx).ok)
        => /\ ~fired'
           /\ spawns' = spawns
           /\ last_call_time' = last_call_time
           /\ has_changes' = has_changes ]_vars

----------------------------------------------------------------------------
(* C6 *)

\* C6: the iteration that reports an Err notification leaves the loop
\* running, ready to take the next notification of the channel.
C6_ErrNonFatal ==
    [][ (Consumed /\ ~Head(rx).ok)
        => (Printed(out', "Error: ") /\ pc' = "recv") ]_vars

----------------------------------------------------------------------------
(* C7 *)

\* C7: without a command nothing is ever spawned and no command line is
\* ever announced, whatever notifications arrive and whenever.
C7_NoCommandNoSpawn ==
    ~IsSome(command)
    => /\ spawns = <<>>
       /\ running = 0
       /\ ~fired
       /\ ~Printed(out, "Running command: ")

\* Without a command, an iteration reached line 113 with the latch set and
\* the window elapsed.
C7_Witness ==
    /\ ~IsSome(command)
    /\ arm \in {"change", "err"}
    /\ has_changes
    /\ Elapsed >= Window
    /\ clock > 0

----------------------------------------------------------------------------
(* C8 *)

\* C8: a success notification without paths is skipped and reported as a
\* source error, and the loop goes on.
C8_EmptyPathsReported ==
    [][ (Consumed /\ Head(rx).ok /\ Head(rx).paths = <<>>)
        => /\ Printed(out', "Error: ")
           /\ has_changes' = has_changes
           /\ pc' = "recv" ]_vars

----------------------------------------------------------------------------
(* C9 *)

----------------------------------------------------------------------------
(* C10 *)

\* C10: every success notification with at least one path that reaches the
\* classifier (all of them when no allow-list is given) is given a label of
\* the six-label set, the raw kind's own name for the five named kinds and
\* Unknown for any other, together with its first path.
C10_Classifier ==
    LET event == Unwrap(res)
    IN  /\ (arm /= "none" /\ extensions = None /\ Len(event.paths) >= 1)
           => arm = "change"
        /\ arm = "change"
           => /\ Len(out) >= 2
              /\ out[2].text = "Change: "
              /\ out[2].args[1][1] \in Labels
              /\ event.kind.tag \in NamedKinds
                 => out[2].args[1][1] = event.kind.tag
              /\ event.kind.tag \notin NamedKinds
                 => out[2].args[1][1] = "Unknown"
              /\ out[2].args[2] = display(event.paths[1])

\* A raw kind outside the five named ones was classified, with two paths.
C10_Witness ==
    /\ arm = "change"
    /\ Unwrap(res).kind.tag = "Any"
    /\ Len(Unwrap(res).paths) = 2
    /\ Unwrap(res).paths[1] /= Unwrap(res).paths[2]
    /\ out[2].args[1][1] = "Unknown"

----------------------------------------------------------------------------
(* C11 *)

\* C11: the latch goes from unset to set only in the iteration of a success
\* notification that passes the filter, and once set it stays set in every
\* later step; an iteration that spawns the command leaves it set.
C11_LatchMonotonic ==
    [][ /\ has_changes => has_changes'
        /\ (~has_changes /\ has_changes')
           => (Consumed /\ Head(rx).ok
                 /\ RelevantLossy(Head(rx).paths, extensions))
        /\ (Consumed /\ fired') => has_changes' ]_vars

\* The command was spawned twice and the latch is still set.
C11_Witness == has_changes /\ Len(spawns) >= 2 /\ fired

----------------------------------------------------------------------------
(* C12 *)

----------------------------------------------------------------------------
(* C13 *)

\* C13: while the latch is unset nothing has been spawned, and an Err or a
\* filtered-out notification processed with the latch unset calls nothing.
C13_NoSpawnBeforeChange ==
    ~has_changes => (spawns = <<>> /\ running = 0 /\ ~fired)

\* With a command configured and the window elapsed, an Err or a
\* filtered-out notification was processed before any relevant change.
C13_Witness ==
    /\ ~has_changes
    /\ IsSome(command)
    /\ arm \in {"err", "filtered"}
    /\ Elapsed >= Window
    /\ clock > 0

----------------------------------------------------------------------------
(* C14 *)

\* C14: "Change detected!" is printed by an iteration iff that iteration
\* moves the latch from unset to set; a relevant notification that finds
\* the latch set prints no such line and, with a command, calls the command
\* iff the window has elapsed.
C14_LogOnLatchTransition ==
    [][ Consumed
        => /\ Printed(out', "Change detected!") <=> (~has_changes /\ has_changes')
           /\ Printed(out', "Change: ") <=> (~has_changes /\ has_changes')
           /\ (has_changes /\ arm' = "change" /\ IsSome(command))
              => (fired' <=> Elapsed >= Window) ]_vars

\* A later relevant notification called the command without logging a change.
C14_Witness ==
    /\ arm = "change"
    /\ fired
    /\ ~Printed(out, "Change detected!")
    /\ Len(spawns) = 2

----------------------------------------------------------------------------
(* C15 *)

\* C15: last_call_time changes only in an iteration that spawns the command,
\* and then to the time of that iteration; it never decreases.
C15_LastCallTimeFrame ==
    [][ /\ last_call_time' /= last_call_time
           => /\ Consumed
              /\ fired'
              /\ Len(spawns') = Len(spawns) + 1
              /\ last_call_time' = clock
        /\ (Consumed /\ Len(spawns') = Len(spawns) + 1)
           => last_call_time' = clock
        /\ last_call_time' >= last_call_time ]_vars

\* A relevant event was suppressed inside the window and left last_call_time
\* at the time of the spawn before it.
C15_Witness ==
    /\ arm = "change"
    /\ ~fired
    /\ IsSome(command)
    /\ Len(spawns) = 1
    /\ last_call_time = spawns[1].at
    /\ last_call_time < clock
    /\ Elapsed < Window

----------------------------------------------------------------------------
(* C16 *)

\* C16: watch has returned only if the channel is closed and every
\* notification sent was taken; and once the channel is closed and empty
\* with the loop still running, watch returns.
C16_Termination ==
    /\ [](pc = "returned" => (~open /\ rx = <<>>))
    /\ [][pc' = "returned" /\ pc /= "returned"
            => (pc = "recv" /\ ~open /\ rx = <<>>)]_vars
    /\ (pc = "recv" /\ ~open /\ rx = <<>>) ~> (pc = "returned")

\* watch returned after an iteration on an Err or a filtered-out event.
C16_Witness ==
    /\ pc = "returned"
    /\ arm \in {"err", "filtered"}

----------------------------------------------------------------------------
(* C17 *)

\* C17: the iteration that spawns the command goes back to the channel
\* with the child still running, and never more children run than were
\* spawned.
C17_FireAndForget ==
    [][ /\ (Consumed /\ Len(spawns') = Len(spawns) + 1)
           => (running' = running + 1 /\ pc' = "recv")
        /\ running' <= Len(spawns') ]_vars

\* Two commands, spawned at least a window apart, run at the same time.
C17_Witness ==
    /\ running >= 2
    /\ Len(spawns) >= 2
    /\ spawns[2].at - spawns[1].at >= Window

----------------------------------------------------------------------------
(* C18 *)

\* C18: an iteration whose call of the command does not spawn it ends in a
\* panic with last_call_time as it was, and after a panic no notification
\* is taken from the channel.
C18_SpawnFailureFatal ==
    [][ /\ (Consumed /\ fired' /\ Len(spawns') = Len(spawns))
           => (pc' = "panicked" /\ last_call_time' = last_call_time)
        /\ pc = "panicked"
           => (pc' = "panicked" /\ rx' = rx /\ res' = res
                 /\ spawns' = spawns /\ last_call_time' = last_call_time) ]_vars

\* A spawn failed while another notification was waiting; time went on and
\* the notification is still in the channel.
C18_Witness ==
    /\ pc = "panicked"
    /\ fired
    /\ rx /= <<>>
    /\ clock > last_call_time + Window
    /\ Len(spawns) = 1

----------------------------------------------------------------------------
(* C19 *)

\* C19: the command is called or spawned only by a step that takes a
\* notification from the channel; a step in which time passes spawns nothing.
C19_NoTrailingFire ==
    [][ /\ (spawns' /= spawns \/ running' > running
              \/ last_call_time' /= last_call_time)
           => Consumed
        /\ clock' /= clock => (spawns' = spawns /\ fired' = fired) ]_vars

\* A relevant change was suppressed inside the window, the channel stayed
\* empty, the window elapsed and the command was not run again.
C19_Witness ==
    /\ pc = "recv"
    /\ arm = "change"
    /\ ~fired
    /\ IsSome(command)
    /\ rx = <<>>
    /\ Len(spawns) = 1
    /\ Elapsed >= Window

----------------------------------------------------------------------------
(* C20 *)

\* C20: with an allow-list, a success notification without paths fails the
\* filter and is skipped; the panic of the classifier happens only without
\* an allow-list.
C20_EmptyPathsFiltered ==
    /\ (arm /= "none" /\ IsSome(extensions) /\ Unwrap(res).paths = <<>>)
       => (arm = "filtered" /\ pc = "recv" /\ out = <<>>)
    /\ arm = "panic" => (extensions = None /\ Unwrap(res).paths = <<>>)

\* A success notification without paths was skipped under an allow-list.
C20_Witness ==
    /\ arm = "filtered"
    /\ IsSome(extensions)
    /\ Unwrap(res).ok
    /\ Unwrap(res).paths = <<>>

====
